---- MODULE Spec2Model ----
(***************************************************************************)
(* Model of rgb-promini.ino: a three-channel PWM driver controlled by      *)
(* three push buttons, with the brightness triple persisted in EEPROM.     *)
(*                                                                         *)
(* Time is the millis() clock in milliseconds.  The clock is 32 bits wide  *)
(* in the program; every run explored here is far shorter than 2^32 ms, so *)
(* the differences ts - lastDebounceTimes[i] never wrap.                   *)
(***************************************************************************)
EXTENDS Integers, Sequences, FiniteSets, TLC

\* ---------------------------------------------------------------- constants
NUM_COLORS == 3
HOLD_TIME_CLEAR == 1500
HOLD_TIME_SAVE == 1000
BLINK_DELAY == 100
PWM_INCREMENT == 16
EEPROM_DATA_OFFSET == 0
debounceDelay == 30
LOW == 0
HIGH == 1

Chan == 0 .. (NUM_COLORS - 1)

\* ------------------------------------------------------------------- bounds
\* the number of loop passes explored
MaxTicks == 6
\* the number of raw input level changes explored
MaxEdges == 4
\* the number of power cycles explored
MaxRestarts == 1
\* the gaps between the starts of two consecutive loop passes
Steps == {15, 505}
\* the EEPROM contents the device may find at its first power-on
InitStores == { <<240, 255, 0>> }

VARIABLES
    Values,            \* int Values[NUM_COLORS]
    lastValues,        \* int lastValues[NUM_COLORS]
    curButtonStates,   \* debounced level per channel
    lastButtonStates,  \* raw level read in the previous pass
    buttonsHeld,       \* held flag per channel
    lastDebounceTimes, \* time of the last raw change per channel
    eeprom,            \* EEPROM bytes at EEPROM_DATA_OFFSET + 0..2
    out,               \* duty value last written to each PWM pin
    now,               \* millis()
    ts,                \* loop()'s local ts of the pass in progress / last run
    pc,                \* "setup", "loop", or a delay() of the save flash
    wlog,              \* the I/O calls of the last step, in program order
    rawSince,          \* history: time the raw level of a channel last changed
    pressVal,          \* history: brightness before the press in progress
    pressAt,           \* history: time the raw level rose for that press
    cleared,           \* history: the press in progress was seen held > 1500 ms
    lastSaved,         \* history: the triple handed to the last SaveState
    saveRun,           \* history: consecutive passes that fired the gesture
    ev,                \* history: what the last pass saw on each channel
    evFrom,            \* history: brightness before the last pass's tap
    edges,             \* history: raw level changes so far
    ticks,             \* history: loop passes so far
    restarts           \* history: power cycles so far

vars == <<Values, lastValues, curButtonStates, lastButtonStates, buttonsHeld,
          lastDebounceTimes, eeprom, out, now, ts, pc, wlog,
          rawSince, pressVal, pressAt, cleared, lastSaved, saveRun, ev,
          evFrom, edges, ticks, restarts>>

\* the history variables a step outside loop()'s channel code leaves alone
hist == <<rawSince, pressVal, pressAt, cleared, ev, evFrom, edges, ticks>>

\* ------------------------------------------------------------------ helpers
Min(a, b) == IF a < b THEN a ELSE b

Zeros == [i \in Chan |-> 0]

\* "no value" of a history variable
None == [i \in Chan |-> -1]

NoEvent == [i \in Chan |-> "none"]

\* analogWrite(OUTPUTS[i], v) of every channel, in index order
WriteAll(v) == [i \in 1 .. NUM_COLORS |-> <<"analogWrite", i - 1, v[i - 1]>>]

\* the pins after the analogWrite calls of a log, applied in order
RECURSIVE Replay(_, _)
Replay(o, log) ==
    IF log = << >> THEN o
    ELSE Replay(IF Head(log)[1] = "analogWrite"
                THEN [o EXCEPT ![Head(log)[2]] = Head(log)[3]] ELSE o,
                Tail(log))

\* the log entry of a delay(ms)
DelayEv(ms) == << <<"delay", ms, ms>> >>

\* the log entry of LoadState / SaveState
CallEv(name) == << <<name, 0, 0>> >>

\* ------------------------------------------------------------- EEPROM layer
\* EEPROM.write stores a uint8_t
Byte(v) == v % 256

\* SaveState taking each byte from the next channel
SaveStateShifted(vals) ==
    [i \in Chan |-> Byte(vals[(i + 1 + EEPROM_DATA_OFFSET) % NUM_COLORS])]

SaveState(vals) == [i \in Chan |-> Byte(vals[i + EEPROM_DATA_OFFSET])]

\* LoadState reading one offset too far
LoadStateShifted(store) ==
    [i \in Chan |-> store[(i + 1 + EEPROM_DATA_OFFSET) % NUM_COLORS]]

LoadState(store) == [i \in Chan |-> store[i + EEPROM_DATA_OFFSET]]

\* ------------------------------------------------------- one channel, one pass
\* the debounce window never restarted (lines 99-101 dropped)
DebounceStampNever(reading, last, t, stamp) == stamp

\* lines 99-101: a raw change restarts the debounce window
DebounceStamp(reading, last, t, stamp) == IF reading # last THEN t ELSE stamp

\* the commit test with twice the debounce delay
CommitsSlow(reading, cur, t, stamp) ==
    (t - stamp) > 2 * debounceDelay /\ reading # cur

\* lines 103-105: the debounced level is replaced by the reading
Commits(reading, cur, t, stamp) ==
    (t - stamp) > debounceDelay /\ reading # cur

\* the step as an 8-bit wrap-around instead of a clamp
TapStepWrap(v) == (v + PWM_INCREMENT) % 256

\* the step without its clamp (line 115 dropped)
TapStepNoClamp(v) == IF v = 255 THEN 0 ELSE v + PWM_INCREMENT

\* lines 110-115: the step applied by a tap
TapStep(v) == Min(IF v = 255 THEN 0 ELSE v + PWM_INCREMENT, 255)

\* the hold rule never firing (lines 124-127 dropped)
HoldClearsNever(cur, t, stamp) == FALSE

\* the hold rule with the save gesture's threshold
HoldClearsEarly(cur, t, stamp) == cur = HIGH /\ (t - stamp) > HOLD_TIME_SAVE

\* line 124: the hold rule
HoldClears(cur, t, stamp) == cur = HIGH /\ (t - stamp) > HOLD_TIME_CLEAR

\* the channel pass with the held flag not consulted on release (line 109)
ChannelStepNoHeld(i, reading, t) ==
    LET stamp == DebounceStamp(reading, lastButtonStates[i], t,
                               lastDebounceTimes[i])
        commit == Commits(reading, curButtonStates[i], t, stamp)
        cur1 == IF commit THEN reading ELSE curButtonStates[i]
        val1 == IF commit /\ cur1 = LOW
                THEN TapStep(Values[i]) ELSE Values[i]
        held1 == IF commit THEN 0 ELSE buttonsHeld[i]
        clear == HoldClears(cur1, t, stamp)
    IN  [stamp |-> stamp,
         cur |-> cur1,
         val |-> IF clear THEN 0 ELSE val1,
         held |-> IF clear THEN 1 ELSE held1,
         last |-> reading]

\* the channel pass with the held flag kept across a commit (line 118 dropped)
ChannelStepKeepHeld(i, reading, t) ==
    LET stamp == DebounceStamp(reading, lastButtonStates[i], t,
                               lastDebounceTimes[i])
        commit == Commits(reading, curButtonStates[i], t, stamp)
        cur1 == IF commit THEN reading ELSE curButtonStates[i]
        val1 == IF commit /\ cur1 = LOW /\ buttonsHeld[i] = 0
                THEN TapStep(Values[i]) ELSE Values[i]
        held1 == buttonsHeld[i]
        clear == HoldClears(cur1, t, stamp)
    IN  [stamp |-> stamp,
         cur |-> cur1,
         val |-> IF clear THEN 0 ELSE val1,
         held |-> IF clear THEN 1 ELSE held1,
         last |-> reading]

\* the channel pass with the step applied on the press instead of the release
ChannelStepOnPress(i, reading, t) ==
    LET stamp == DebounceStamp(reading, lastButtonStates[i], t,
                               lastDebounceTimes[i])
        commit == Commits(reading, curButtonStates[i], t, stamp)
        cur1 == IF commit THEN reading ELSE curButtonStates[i]
        val1 == IF commit /\ cur1 = HIGH /\ buttonsHeld[i] = 0
                THEN TapStep(Values[i]) ELSE Values[i]
        held1 == IF commit THEN 0 ELSE buttonsHeld[i]
        clear == HoldClears(cur1, t, stamp)
    IN  [stamp |-> stamp,
         cur |-> cur1,
         val |-> IF clear THEN 0 ELSE val1,
         held |-> IF clear THEN 1 ELSE held1,
         last |-> reading]

\* lines 98-129 for channel i with the given reading at time t
ChannelStep(i, reading, t) ==
    LET stamp == DebounceStamp(reading, lastButtonStates[i], t,
                               lastDebounceTimes[i])
        commit == Commits(reading, curButtonStates[i], t, stamp)
        cur1 == IF commit THEN reading ELSE curButtonStates[i]
        val1 == IF commit /\ cur1 = LOW /\ buttonsHeld[i] = 0
                THEN TapStep(Values[i]) ELSE Values[i]
        held1 == IF commit THEN 0 ELSE buttonsHeld[i]
        clear == HoldClears(cur1, t, stamp)
    IN  [stamp |-> stamp,
         cur |-> cur1,
         val |-> IF clear THEN 0 ELSE val1,
         held |-> IF clear THEN 1 ELSE held1,
         last |-> reading]

\* the apply step without its comparison (line 134 dropped)
RECURSIVE ApplyWritesAlways(_, _, _)
ApplyWritesAlways(i, vals, lastv) ==
    IF i = NUM_COLORS THEN << >>
    ELSE << <<"analogWrite", i, vals[i]>> >>
         \o ApplyWritesAlways(i + 1, vals, lastv)

\* lines 133-138: the writes of the apply step, in index order
RECURSIVE ApplyWrites(_, _, _)
ApplyWrites(i, vals, lastv) ==
    IF i = NUM_COLORS THEN << >>
    ELSE (IF vals[i] # lastv[i] THEN << <<"analogWrite", i, vals[i]>> >>
                                ELSE << >>)
         \o ApplyWrites(i + 1, vals, lastv)

\* the save gesture's condition with the clear threshold
SaveTriggerLate(cur, t, stamps) ==
    /\ \A i \in Chan : cur[i] = HIGH
    /\ \A i \in Chan : (t - stamps[i]) > HOLD_TIME_CLEAR

\* the apply step without its assignment (line 136 dropped)
ApplyLastStale(vals, lastv) == lastv

\* lines 134-136: lastValues after the apply step
ApplyLast(vals, lastv) ==
    [i \in Chan |-> IF vals[i] # lastv[i] THEN vals[i] ELSE lastv[i]]

\* lines 141-146: the save gesture's condition
SaveTrigger(cur, t, stamps) ==
    /\ \A i \in Chan : cur[i] = HIGH
    /\ \A i \in Chan : (t - stamps[i]) > HOLD_TIME_SAVE

\* every button is released, raw and debounced: nothing in loop() then depends
\* on the time that passes before the next pass
Quiet ==
    \A i \in Chan : lastButtonStates[i] = LOW /\ curButtonStates[i] = LOW

\* the gaps explored before the next pass: one gap stands for all when Quiet
Gaps == IF Quiet THEN {15} ELSE Steps

\* --------------------------------------------------------------------- Init
Init ==
    /\ Values = Zeros
    /\ lastValues = Zeros
    /\ curButtonStates = [i \in Chan |-> LOW]
    /\ lastButtonStates = [i \in Chan |-> LOW]
    /\ buttonsHeld = Zeros
    /\ lastDebounceTimes = Zeros
    /\ eeprom \in {[i \in Chan |-> s[i + 1]] : s \in InitStores}
    /\ out = Zeros
    /\ now = 0
    /\ ts = 0
    /\ pc = "setup"
    /\ wlog = << >>
    /\ rawSince = Zeros
    /\ pressVal = None
    /\ pressAt = None
    /\ cleared = [i \in Chan |-> FALSE]
    /\ lastSaved = None
    /\ saveRun = 0
    /\ ev = NoEvent
    /\ evFrom = None
    /\ edges = 0
    /\ ticks = 0
    /\ restarts = 0

\* ------------------------------------------------------------------ actions
\* setup() applying Values before it loads them
SetupApplyFirst ==
    /\ pc = "setup"
    /\ LET loaded == LoadState(eeprom)
       IN  /\ Values' = loaded
           /\ lastValues' = loaded
           /\ wlog' = WriteAll(Zeros) \o WriteAll(Values) \o CallEv("LoadState")
           /\ out' = Replay(out, wlog')
    /\ pc' = "loop"
    /\ UNCHANGED <<curButtonStates, lastButtonStates, buttonsHeld,
                   lastDebounceTimes, eeprom, now, ts, hist, lastSaved,
                   saveRun, restarts>>

\* setup(), lines 70-90
Setup ==
    /\ pc = "setup"
    /\ LET loaded == LoadState(eeprom)
       IN  /\ Values' = loaded
           /\ lastValues' = loaded
           /\ wlog' = WriteAll(Zeros) \o CallEv("LoadState") \o WriteAll(loaded)
           /\ out' = Replay(out, wlog')
    /\ pc' = "loop"
    /\ UNCHANGED <<curButtonStates, lastButtonStates, buttonsHeld,
                   lastDebounceTimes, eeprom, now, ts, hist, lastSaved,
                   saveRun, restarts>>

\* loop(), lines 92-151: one pass up to the first delay() of the save flash,
\* or the whole pass when the save gesture does not fire, started after one
\* of the given gaps and reading one of the given pin levels
LoopOn(gaps, readings) ==
    /\ pc = "loop"
    /\ \E dt \in gaps, reading \in readings :
         LET t == now + dt
             ch == [i \in Chan |-> ChannelStep(i, reading[i], t)]
             vals == [i \in Chan |-> ch[i].val]
             cur == [i \in Chan |-> ch[i].cur]
             stamps == [i \in Chan |-> ch[i].stamp]
             fire == SaveTrigger(cur, t, stamps)
             nedges == edges + Cardinality({i \in Chan :
                                   reading[i] # lastButtonStates[i]})
             \* what an observer of the pins and of the debounced levels sees
             since == [i \in Chan |-> IF reading[i] # lastButtonStates[i]
                                      THEN t ELSE rawSince[i]]
             pressed == [i \in Chan |->
                           curButtonStates[i] = LOW /\ cur[i] = HIGH]
             released == [i \in Chan |->
                            curButtonStates[i] = HIGH /\ cur[i] = LOW]
             flick == [i \in Chan |->
                         /\ reading[i] # lastButtonStates[i]
                         /\ reading[i] = curButtonStates[i]
                         /\ t - rawSince[i] < debounceDelay]
             tapped == [i \in Chan |->
                          /\ released[i]
                          /\ ~fire
                          /\ pressVal[i] # -1
                          /\ since[i] - pressAt[i] < HOLD_TIME_CLEAR]
         IN  /\ ticks < MaxTicks
             /\ ticks' = ticks + 1
             /\ nedges <= MaxEdges
             /\ ts' = t
             /\ now' = t
             /\ Values' = vals
             /\ curButtonStates' = cur
             /\ lastDebounceTimes' = stamps
             /\ buttonsHeld' = [i \in Chan |-> ch[i].held]
             /\ lastButtonStates' = reading
             /\ lastValues' = ApplyLast(vals, lastValues)
             /\ wlog' = ApplyWrites(0, vals, lastValues)
                        \o (IF fire THEN WriteAll(Zeros) ELSE << >>)
             /\ out' = Replay(out, wlog')
             /\ pc' = IF fire THEN "blink1" ELSE "loop"
             /\ rawSince' = since
             /\ edges' = nedges
             /\ pressVal' = [i \in Chan |->
                    IF fire \/ released[i] THEN -1
                    ELSE IF pressed[i] THEN Values[i] ELSE pressVal[i]]
             /\ pressAt' = [i \in Chan |->
                    IF fire \/ released[i] THEN -1
                    ELSE IF pressed[i] THEN since[i] ELSE pressAt[i]]
             /\ cleared' = [i \in Chan |->
                    IF cur[i] = HIGH /\ t - since[i] > HOLD_TIME_CLEAR
                    THEN TRUE
                    ELSE IF pressed[i] THEN FALSE ELSE cleared[i]]
             /\ ev' = [i \in Chan |->
                    IF flick[i] THEN "flick"
                    ELSE IF tapped[i] THEN "tap"
                    ELSE IF released[i] THEN "release"
                    ELSE IF pressed[i] THEN "press"
                    ELSE IF cur[i] = HIGH /\ t - since[i] > HOLD_TIME_CLEAR
                         THEN "hold" ELSE "none"]
             /\ evFrom' = [i \in Chan |->
                    IF tapped[i] /\ ~flick[i] THEN pressVal[i] ELSE -1]
             /\ saveRun' = IF fire THEN Min(saveRun + 1, 2) ELSE 0
    /\ UNCHANGED <<eeprom, lastSaved, restarts>>

\* loop() with every combination of pin levels
Loop == LoopOn(Gaps, [Chan -> {LOW, HIGH}])

\* lines 152-155: the first delay and the writes that follow it
Blink1 ==
    /\ pc = "blink1"
    /\ now' = now + BLINK_DELAY
    /\ wlog' = DelayEv(BLINK_DELAY) \o WriteAll(Values)
    /\ out' = Replay(out, wlog')
    /\ pc' = "blink2"
    /\ UNCHANGED <<Values, lastValues, curButtonStates, lastButtonStates,
                   buttonsHeld, lastDebounceTimes, eeprom, ts, hist,
                   lastSaved, saveRun, restarts>>

\* the second delay followed by the brightness instead of the dark phase
Blink2Bright ==
    /\ pc = "blink2"
    /\ now' = now + BLINK_DELAY
    /\ wlog' = DelayEv(BLINK_DELAY) \o WriteAll(Values)
    /\ out' = Replay(out, wlog')
    /\ pc' = "blink3"
    /\ UNCHANGED <<Values, lastValues, curButtonStates, lastButtonStates,
                   buttonsHeld, lastDebounceTimes, eeprom, ts, hist,
                   lastSaved, saveRun, restarts>>

\* lines 156-159: the second delay and the writes that follow it
Blink2 ==
    /\ pc = "blink2"
    /\ now' = now + BLINK_DELAY
    /\ wlog' = DelayEv(BLINK_DELAY) \o WriteAll(Zeros)
    /\ out' = Replay(out, wlog')
    /\ pc' = "blink3"
    /\ UNCHANGED <<Values, lastValues, curButtonStates, lastButtonStates,
                   buttonsHeld, lastDebounceTimes, eeprom, ts, hist,
                   lastSaved, saveRun, restarts>>

\* the end of the flash without the held flags (line 166 dropped)
Blink3NoHeld ==
    /\ pc = "blink3"
    /\ now' = now + BLINK_DELAY
    /\ wlog' = DelayEv(BLINK_DELAY) \o WriteAll(Values) \o CallEv("SaveState")
    /\ out' = Replay(out, wlog')
    /\ eeprom' = SaveState(Values)
    /\ pc' = "loop"
    /\ lastSaved' = Values
    /\ UNCHANGED <<Values, lastValues, curButtonStates, lastButtonStates,
                   buttonsHeld, lastDebounceTimes, ts, hist, saveRun,
                   restarts>>

\* the end of the flash without the restoring writes (lines 162-164 dropped)
Blink3Dark ==
    /\ pc = "blink3"
    /\ now' = now + BLINK_DELAY
    /\ wlog' = DelayEv(BLINK_DELAY) \o CallEv("SaveState")
    /\ out' = Replay(out, wlog')
    /\ buttonsHeld' = [i \in Chan |-> 1]
    /\ eeprom' = SaveState(Values)
    /\ pc' = "loop"
    /\ lastSaved' = Values
    /\ UNCHANGED <<Values, lastValues, curButtonStates, lastButtonStates,
                   lastDebounceTimes, ts, hist, saveRun, restarts>>

\* lines 160-168: the third delay, the restoring writes, the held flags and
\* SaveState
Blink3 ==
    /\ pc = "blink3"
    /\ now' = now + BLINK_DELAY
    /\ wlog' = DelayEv(BLINK_DELAY) \o WriteAll(Values) \o CallEv("SaveState")
    /\ out' = Replay(out, wlog')
    /\ buttonsHeld' = [i \in Chan |-> 1]
    /\ eeprom' = SaveState(Values)
    /\ pc' = "loop"
    /\ lastSaved' = Values
    /\ UNCHANGED <<Values, lastValues, curButtonStates, lastButtonStates,
                   lastDebounceTimes, ts, hist, saveRun, restarts>>

\* power is removed and restored: RAM returns to its initialisers (lines
\* 50-65), millis() restarts, the EEPROM keeps its bytes.  A power cycle
\* before the first save returns the device to Init, so only the power cycles
\* that follow a save are explored.
PowerCycle ==
    /\ restarts < MaxRestarts
    /\ lastSaved # None
    /\ restarts' = restarts + 1
    /\ Values' = Zeros
    /\ lastValues' = Zeros
    /\ curButtonStates' = [i \in Chan |-> LOW]
    /\ lastButtonStates' = [i \in Chan |-> LOW]
    /\ buttonsHeld' = Zeros
    /\ lastDebounceTimes' = Zeros
    /\ out' = Zeros
    /\ now' = 0
    /\ ts' = 0
    /\ pc' = "setup"
    /\ wlog' = << >>
    /\ rawSince' = Zeros
    /\ pressVal' = None
    /\ pressAt' = None
    /\ cleared' = [i \in Chan |-> FALSE]
    /\ saveRun' = 0
    /\ ev' = NoEvent
    /\ evFrom' = None
    /\ UNCHANGED <<eeprom, lastSaved, edges, ticks>>

Next == Setup \/ Loop \/ Blink1 \/ Blink2 \/ Blink3 \/ PowerCycle

Spec == Init /\ [][Next]_vars

\* ------------------------------------------- the tap step over every byte
\* power-on with any byte stored for channel 0
InitTap ==
    /\ Values = Zeros
    /\ lastValues = Zeros
    /\ curButtonStates = [i \in Chan |-> LOW]
    /\ lastButtonStates = [i \in Chan |-> LOW]
    /\ buttonsHeld = Zeros
    /\ lastDebounceTimes = Zeros
    /\ eeprom \in {[i \in Chan |-> IF i = 0 THEN b ELSE 0] : b \in 0 .. 255}
    /\ out = Zeros
    /\ now = 0
    /\ ts = 0
    /\ pc = "setup"
    /\ wlog = << >>
    /\ rawSince = Zeros
    /\ pressVal = None
    /\ pressAt = None
    /\ cleared = [i \in Chan |-> FALSE]
    /\ lastSaved = None
    /\ saveRun = 0
    /\ ev = NoEvent
    /\ evFrom = None
    /\ edges = 0
    /\ ticks = 0
    /\ restarts = 0

\* loop() with only the button of channel 0 in use
TapLoop ==
    LoopOn(IF Quiet THEN {15} ELSE {505},
           {r \in [Chan -> {LOW, HIGH}] : r[1] = LOW /\ r[2] = LOW})

NextTap == Setup \/ TapLoop

SpecTap == InitTap /\ [][NextTap]_vars

\* --------------------------------------------------------------- properties
\* a step of loop() up to its end or its first delay()
LoopStep == pc = "loop" /\ ticks' = ticks + 1

\* a step that continues the save flash of the pass in progress
FlashStep == pc \in {"blink1", "blink2", "blink3"} /\ pc' # "setup"

\* channel i's raw level has been pressed, unchanged, for more than ms
HeldOver(i, ms) == curButtonStates[i] = HIGH /\ ts - rawSince[i] > ms

\* C1: in every reachable state each channel's brightness is in 0..255
C1_BrightnessInRange == \A i \in Chan : Values[i] \in 0 .. 255

\* a tap from a loaded value above 239 has just been clamped to 255 while
\* another channel is at 0
C1_Witness ==
    \E i, j \in Chan :
        ev[i] = "tap" /\ evFrom[i] > 239 /\ Values[i] = 255 /\ Values[j] = 0

\* C2 as stated: in a loop pass a brightness changes only to old + 16, from
\* 255 to 0, or to 0
C2_Original ==
    [][LoopStep \/ FlashStep =>
         \A i \in Chan : Values'[i] # Values[i] =>
            \/ Values'[i] = Values[i] + PWM_INCREMENT
            \/ Values[i] = 255 /\ Values'[i] = 0
            \/ Values'[i] = 0]_vars

\* C2 amended: in a loop pass a brightness changes only to min(old + 16, 255),
\* from 255 to 0, or to 0
C2_StepOrClampOrZero ==
    [][LoopStep \/ FlashStep =>
         \A i \in Chan : Values'[i] # Values[i] =>
            \/ Values'[i] = Min(Values[i] + PWM_INCREMENT, 255)
            \/ Values[i] = 255 /\ Values'[i] = 0
            \/ Values'[i] = 0]_vars

\* a pass has just moved a brightness from 240..254 to 255
C2_Witness ==
    \E i \in Chan :
        ev[i] = "tap" /\ evFrom[i] \in 240 .. 254 /\ Values[i] = 255
        /\ pc = "loop"

\* C3: the debounced level changes only to a raw level that has been steady
\* for at least 30 ms, so a flicker shorter than 30 ms changes neither the
\* debounced level nor the brightness, in the pass that ends it or in any other
C3_FlickerIgnored ==
    [][LoopStep =>
         \A i \in Chan :
            /\ curButtonStates'[i] # curButtonStates[i] =>
                  /\ lastButtonStates'[i] = curButtonStates'[i]
                  /\ ts' - rawSince'[i] >= debounceDelay
            /\ ev'[i] = "flick" =>
                  /\ curButtonStates'[i] = curButtonStates[i]
                  /\ Values'[i] = Values[i]
            /\ Values'[i] # Values[i] =>
                  \/ curButtonStates'[i] # curButtonStates[i]
                  \/ HeldOver(i, HOLD_TIME_CLEAR)']_vars

\* a raw level has just returned to the debounced level within 30 ms
C3_Witness ==
    \E i \in Chan : ev[i] = "flick" /\ ts - rawSince[i] = 0 /\ pc = "loop"

\* C4 as stated: a release committed less than 1500 ms after the press, with
\* no save gesture in between, leaves the channel at its brightness before the
\* press plus 16 (0 from 255) and changes no other channel
C4_Original ==
    [][LoopStep =>
         \A i \in Chan : ev'[i] = "tap" =>
            /\ Values'[i] = IF pressVal[i] = 255 THEN 0
                            ELSE pressVal[i] + PWM_INCREMENT
            /\ \A j \in Chan \ {i} :
                  ev'[j] \in {"none", "flick", "press"} =>
                     Values'[j] = Values[j]]_vars

\* C4 amended: ... leaves the channel at min(brightness before the press + 16,
\* 255) (0 from 255), applied once, and changes no other channel
C4_TapStepsOnce ==
    [][LoopStep =>
         \A i \in Chan : ev'[i] = "tap" =>
            /\ Values'[i] = IF pressVal[i] = 255 THEN 0
                            ELSE Min(pressVal[i] + PWM_INCREMENT, 255)
            /\ \A j \in Chan \ {i} :
                  ev'[j] \in {"none", "flick", "press"} =>
                     Values'[j] = Values[j]]_vars

\* a tap has just added 16 to one channel while another kept a non-zero value
C4_Witness ==
    \E i \in Chan :
        /\ ev[i] = "tap" /\ evFrom[i] >= 0 /\ Values[i] = evFrom[i] + 16
        /\ \E j \in Chan \ {i} : ev[j] = "none" /\ Values[j] > 0

\* C5: once a pressed channel's raw level has been steady for more than
\* 1500 ms its brightness is 0 and its held flag is set in that same pass;
\* the brightness stays 0 while the button stays held and through the commit
\* of the release
C5_HoldClear ==
    [][LoopStep =>
         \A i \in Chan :
            /\ HeldOver(i, HOLD_TIME_CLEAR)' =>
                  Values'[i] = 0 /\ buttonsHeld'[i] = 1
            /\ cleared'[i] => Values'[i] = 0
            /\ cleared'[i] /\ curButtonStates'[i] = HIGH =>
                  buttonsHeld'[i] = 1]_vars

\* a release has just been committed after a hold of more than 1500 ms that
\* cleared a non-zero brightness
C5_Witness ==
    \E i \in Chan :
        /\ cleared[i] /\ ev[i] = "release" /\ curButtonStates[i] = LOW
        /\ Values[i] = 0 /\ eeprom[i] > 0 /\ restarts = 0

\* the log holds an analogWrite to channel i
HasWrite(log, i) ==
    \E k \in 1 .. Len(log) : log[k][1] = "analogWrite" /\ log[k][2] = i

\* the last n entries of a log
LastN(log, n) == SubSeq(log, Len(log) - n + 1, Len(log))

\* what the save flash leaves alone until its last step
FlashFrozen ==
    UNCHANGED <<Values, lastValues, curButtonStates, lastButtonStates,
                lastDebounceTimes, ts>>

\* C6: a pass starts the save sequence exactly when, after its channel
\* updates, all three channels are debounced PRESSED with more than 1000 ms
\* since their last raw change; the sequence then runs to its end, where the
\* store holds the three brightness values; nothing latches, so the next pass
\* fires again under the same condition
C6_SaveGesture ==
    [][/\ LoopStep =>
            (pc' = "blink1" <=> \A i \in Chan : HeldOver(i, HOLD_TIME_SAVE)')
       /\ pc = "blink1" /\ pc' # "setup" => pc' = "blink2"
       /\ pc = "blink2" /\ pc' # "setup" => pc' = "blink3"
       /\ pc = "blink3" /\ pc' # "setup" =>
            /\ pc' = "loop"
            /\ Values' = Values
            /\ \A i \in Chan : eeprom'[i] = Values[i]]_vars

\* two consecutive passes of one hold have fired the gesture and the second
\* write is in the store
C6_Witness ==
    /\ saveRun = 2 /\ pc = "loop" /\ eeprom = Values /\ lastSaved = Values
    /\ \E i \in Chan : Values[i] > 0

\* C7: the save sequence drives the outputs all-0, all-brightness, all-0,
\* all-brightness with a 100 ms delay after each of the first three; during
\* it no input is read and no channel state changes, the brightness is not
\* modified, and the store is written only after the last step
C7_FlashSequence ==
    [][/\ pc' = "blink1" =>
            /\ LoopStep
            /\ out' = Zeros
            /\ Len(wlog') >= NUM_COLORS
            /\ LastN(wlog', NUM_COLORS) = WriteAll(Zeros)
            /\ eeprom' = eeprom
       /\ pc = "blink1" /\ pc' # "setup" =>
            /\ now' = now + BLINK_DELAY
            /\ wlog' = DelayEv(BLINK_DELAY) \o WriteAll(Values)
            /\ out' = Values
            /\ FlashFrozen /\ UNCHANGED <<buttonsHeld, eeprom>>
       /\ pc = "blink2" /\ pc' # "setup" =>
            /\ now' = now + BLINK_DELAY
            /\ wlog' = DelayEv(BLINK_DELAY) \o WriteAll(Zeros)
            /\ out' = Zeros
            /\ FlashFrozen /\ UNCHANGED <<buttonsHeld, eeprom>>
       /\ pc = "blink3" /\ pc' # "setup" =>
            /\ now' = now + BLINK_DELAY
            /\ wlog' = DelayEv(BLINK_DELAY) \o WriteAll(Values)
                        \o CallEv("SaveState")
            /\ out' = Values
            /\ FlashFrozen
       /\ eeprom' # eeprom => pc = "blink3" /\ pc' = "loop"]_vars

\* a save sequence over a non-zero brightness has just completed, 300 ms
\* after its pass began
C7_Witness ==
    /\ pc = "loop" /\ saveRun >= 1 /\ now = ts + 3 * BLINK_DELAY
    /\ Len(wlog) = NUM_COLORS + 2 /\ wlog[NUM_COLORS + 2][1] = "SaveState"
    /\ out = Values /\ \E i \in Chan : Values[i] > 0

\* C8: when setup runs after a restart that follows SaveState of a triple v,
\* it leaves Values = lastValues = v and has written v to the outputs
C8_RoundTrip ==
    [][pc = "setup" /\ pc' = "loop" /\ lastSaved # None =>
         /\ Values' = lastSaved
         /\ lastValues' = lastSaved
         /\ out' = lastSaved
         /\ LastN(wlog', NUM_COLORS) = WriteAll(lastSaved)]_vars

\* setup has just run after a restart that followed a save of a triple with
\* distinct bytes
C8_Witness ==
    /\ pc = "loop" /\ restarts = 1 /\ Len(wlog) = 2 * NUM_COLORS + 1
    /\ Values = lastSaved /\ lastSaved[0] # lastSaved[1]

\* C9 as stated: in any pass an output is written only if the brightness
\* differs from the value last applied
C9_Original ==
    [][LoopStep \/ FlashStep =>
         \A i \in Chan : HasWrite(wlog', i) => Values'[i] # lastValues[i]]_vars

\* C9 amended: in any pass in which the save gesture does not fire an output
\* is written only if the brightness differs from the value last applied
C9_WriteOnChange ==
    [][LoopStep /\ pc' = "loop" =>
         \A i \in Chan : HasWrite(wlog', i) => Values'[i] # lastValues[i]]_vars

\* a pass without the gesture has just written exactly one output, of a
\* channel whose brightness it changed
C9_Witness ==
    /\ pc = "loop" /\ ticks > 0 /\ saveRun = 0 /\ Len(wlog) = 1
    /\ \E i \in Chan : HasWrite(wlog, i) /\ out[i] = Values[i]
                        /\ ev[i] \in {"tap", "hold"}

\* C10 as stated: a tap on channel 0 at brightness 240 results in 0
C10_Original ==
    [][LoopStep /\ ev'[0] = "tap" /\ pressVal[0] = 240 /\ Values[0] = 240 =>
         Values'[0] = 0]_vars

\* C10 amended: a tap on channel 0 at brightness 240 results in 255
C10_TapFrom240 ==
    [][LoopStep /\ ev'[0] = "tap" /\ pressVal[0] = 240 /\ Values[0] = 240 =>
         Values'[0] = 255]_vars

\* channel 0 has just been tapped at brightness 240
C10_Witness ==
    ev[0] = "tap" /\ evFrom[0] = 240 /\ lastValues[0] = 255 /\ out[0] = 255

\* C11: a release commit with the held flag clear maps the brightness old to
\* 0 if old = 255 and to min(old + 16, 255) otherwise, for every old in 0..255
C11_TapFunction ==
    [][LoopStep =>
         \A i \in Chan :
            /\ curButtonStates[i] = HIGH /\ curButtonStates'[i] = LOW
            /\ buttonsHeld[i] = 0
            => Values'[i] = IF Values[i] = 255 THEN 0
                            ELSE IF Values[i] + 16 > 255 THEN 255
                            ELSE Values[i] + 16]_vars

\* a release commit has just clamped a brightness that is not a multiple
\* of 16
C11_Witness ==
    /\ ev[0] = "tap" /\ evFrom[0] = 250 /\ Values[0] = 255
    /\ buttonsHeld[0] = 0 /\ curButtonStates[0] = LOW

\* C12: a brightness rises only in a pass that commits the channel's
\* debounced level from PRESSED to released with the raw level released; in a
\* pass that leaves the level PRESSED the brightness never rises, and any
\* other change of it is a commit to released
C12_StepOnlyOnRelease ==
    [][LoopStep =>
         \A i \in Chan :
            /\ Values'[i] > Values[i] =>
                  /\ curButtonStates[i] = HIGH
                  /\ curButtonStates'[i] = LOW
                  /\ lastButtonStates'[i] = LOW
            /\ curButtonStates'[i] = HIGH => Values'[i] <= Values[i]
            /\ Values'[i] # Values[i] /\ curButtonStates'[i] = LOW =>
                  curButtonStates[i] = HIGH]_vars

\* a release commit has just raised a brightness while another channel is
\* pressed
C12_Witness ==
    \E i, j \in Chan :
        /\ ev[i] = "tap" /\ Values[i] > evFrom[i] /\ evFrom[i] >= 0
        /\ curButtonStates[i] = LOW /\ curButtonStates[j] = HIGH

\* a save gesture has fired during the press of channel i that is in progress
SavedInPress(i) == curButtonStates[i] = HIGH /\ pressVal[i] = -1

\* C13: when a save sequence ends all three held flags are set, they stay set
\* while the press lasts, and the commit of the release that follows leaves
\* the channel's brightness as it was
C13_NoStepAfterSave ==
    [][/\ pc = "blink3" /\ pc' = "loop" =>
            \A i \in Chan : buttonsHeld'[i] = 1
       /\ LoopStep =>
            \A i \in Chan :
               /\ SavedInPress(i) /\ curButtonStates'[i] = HIGH =>
                     buttonsHeld'[i] = 1
               /\ SavedInPress(i) /\ curButtonStates'[i] = LOW =>
                     Values'[i] = Values[i]]_vars

\* a release has just been committed after a save of a non-zero brightness
\* that no hold had cleared, and the brightness is still the saved one
C13_Witness ==
    \E i \in Chan :
        /\ ev[i] = "release" /\ ~cleared[i] /\ lastSaved # None
        /\ restarts = 0 /\ Values[i] > 0 /\ Values[i] = lastSaved[i]

\* C14: once setup has run, lastValues equals Values after the apply step of
\* every pass and throughout the save flash
C14_LastValuesMirror ==
    pc # "setup" => \A i \in Chan : lastValues[i] = Values[i]

\* a pass has just changed a brightness and applied it
C14_Witness ==
    \E i \in Chan :
        /\ ev[i] \in {"tap", "hold"} /\ Len(wlog) > 0
        /\ lastValues[i] = Values[i] /\ Values[i] # eeprom[i]

\* C15 as stated: in a pass with at least 30 ms since the channel's last raw
\* change and a raw level that differs from the debounced one, the debounced
\* level becomes the raw level
C15_Original ==
    [][LoopStep =>
         \A i \in Chan :
            /\ ts' - rawSince'[i] >= debounceDelay
            /\ lastButtonStates'[i] # curButtonStates[i]
            => curButtonStates'[i] = lastButtonStates'[i]]_vars

\* C15 amended: the same with more than 30 ms
C15_CommitAfterDelay ==
    [][LoopStep =>
         \A i \in Chan :
            /\ ts' - rawSince'[i] > debounceDelay
            /\ lastButtonStates'[i] # curButtonStates[i]
            => curButtonStates'[i] = lastButtonStates'[i]]_vars

\* a press has just been committed 45 ms after the raw level rose
C15_Witness ==
    \E i \in Chan :
        /\ ev[i] = "press" /\ ts - rawSince[i] = 45
        /\ curButtonStates[i] = HIGH /\ lastButtonStates[i] = HIGH

\* C16: the store changes only in the last step of a save sequence, never in
\* setup or in a pass that does not fire the gesture, so it always holds the
\* triple of the most recent save, or its first content when there was none
C16_StoreOnlyBySave ==
    [][/\ eeprom' # eeprom => pc = "blink3" /\ pc' = "loop" /\ saveRun > 0
       /\ pc = "setup" \/ pc' = "setup" => eeprom' = eeprom
       /\ LoopStep => eeprom' = eeprom
       /\ eeprom' = IF lastSaved' = None
                    THEN [i \in Chan |-> eeprom[i]] ELSE lastSaved'
       /\ lastSaved' = None =>
            eeprom' \in {[i \in Chan |-> s[i + 1]] : s \in InitStores}]_vars

\* after a save the live brightness has moved away from the stored triple
C16_Witness ==
    /\ pc = "loop" /\ lastSaved # None /\ eeprom = lastSaved
    /\ \E i \in Chan : Values[i] # eeprom[i] /\ eeprom[i] > 0

\* the position of the first entry of a log made by the named call, 0 if none
RECURSIVE FirstCall(_, _, _)
FirstCall(log, name, k) ==
    IF k > Len(log) THEN 0
    ELSE IF log[k][1] = name THEN k ELSE FirstCall(log, name, k + 1)

\* C17 as stated: setup makes no output write before LoadState
C17_Original ==
    [][pc = "setup" /\ pc' = "loop" =>
         /\ FirstCall(wlog', "LoadState", 1) > 0
         /\ FirstCall(wlog', "LoadState", 1)
              < FirstCall(wlog', "analogWrite", 1)]_vars

\* C17 amended: setup writes 0 to the three outputs, then runs LoadState, then
\* writes the loaded brightness to the three outputs; no brightness is
\* written before LoadState
C17_ZerosLoadApply ==
    [][pc = "setup" /\ pc' = "loop" =>
         /\ FirstCall(wlog', "LoadState", 1) = NUM_COLORS + 1
         /\ SubSeq(wlog', 1, NUM_COLORS) = WriteAll(Zeros)
         /\ SubSeq(wlog', NUM_COLORS + 2, Len(wlog')) = WriteAll(Values')
         /\ \A i \in Chan : Values'[i] = eeprom[i] /\ lastValues'[i] = eeprom[i]
       ]_vars

\* setup has just run at the first power-on over a store with a non-zero byte
C17_Witness ==
    /\ pc = "loop" /\ ticks = 0 /\ restarts = 0
    /\ FirstCall(wlog, "LoadState", 1) = NUM_COLORS + 1
    /\ \E i \in Chan : out[i] > 0

\* C18: in every reachable state a set held flag goes with a debounced level
\* PRESSED
C18_HeldImpliesPressed ==
    \A i \in Chan : buttonsHeld[i] = 1 => curButtonStates[i] = HIGH

\* one channel is held with its flag set while another has just committed the
\* release of a hold that had set its flag
C18_Witness ==
    \E i, j \in Chan :
        /\ buttonsHeld[i] = 1 /\ curButtonStates[i] = HIGH
        /\ ev[j] = "release" /\ cleared[j] /\ buttonsHeld[j] = 0
        /\ curButtonStates[j] = LOW /\ pc = "loop"

\* C19: a pass that finds all three channels pressed with more than 1500 ms
\* since their last raw change leaves all three brightness values 0 and
\* starts the save sequence, at whose end the store holds (0, 0, 0)
C19_LongHoldSavesZeros ==
    [][/\ LoopStep /\ (\A i \in Chan : HeldOver(i, HOLD_TIME_CLEAR)') =>
            Values' = Zeros /\ pc' = "blink1"
       /\ /\ pc = "blink3" /\ pc' = "loop"
          /\ \A i \in Chan : HeldOver(i, HOLD_TIME_CLEAR)
          => eeprom' = Zeros /\ Values' = Zeros]_vars

\* the second save of one hold has just replaced a stored triple, saved
\* between 1000 and 1500 ms into the hold, by (0, 0, 0)
C19_Witness ==
    /\ pc = "loop" /\ saveRun = 2 /\ ticks = 4 /\ restarts = 0
    /\ \A i \in Chan : HeldOver(i, HOLD_TIME_CLEAR)
    /\ eeprom = Zeros /\ Values = Zeros

\* C20: at the end of setup and of every pass, save flash included, each
\* output carries the channel's current brightness
C20_OutputsShowBrightness ==
    pc = "loop" => \A i \in Chan : out[i] = Values[i]

\* a save flash over a non-zero brightness has just ended with the outputs
\* restored and the held flags set
C20_Witness ==
    /\ pc = "loop" /\ lastSaved = Values /\ out = Values
    /\ wlog # << >> /\ wlog[1][1] = "delay"
    /\ \A i \in Chan : buttonsHeld[i] = 1
    /\ \E i \in Chan : out[i] > 0
====
